---- MODULE Spec2Model ----
(***************************************************************************)
(* Portfolio API (src/main.py, src/schemas.py): FastAPI handlers over a     *)
(* document store with two collections, "settings" and "project".          *)
(*                                                                         *)
(* Each HTTP request occupies a slot; a handler is split into one action   *)
(* per store call, so concurrent requests interleave exactly at the store  *)
(* calls (each store call is atomic, nothing spans two of them).           *)
(*                                                                         *)
(* Python values: a handler-level value is tagged, [t |-> "None"],         *)
(* [t |-> "dict", d |-> fields] or [t |-> "list", l |-> <<dicts>>].        *)
(* Field values are atoms (strings); the atom None is Python's None, the   *)
(* atoms "[]" and "{}" are the empty list and the empty dict, an ObjectId  *)
(* is [oid |-> n] and its str() is a sequence of IdLen hex characters.     *)
(***************************************************************************)
EXTENDS Integers, Sequences, FiniteSets, TLC

\* ---------------------------------------------------------------- bounds
\* upsert_settings requests in progress at once
MaxUpserts == 2
\* create_project and update_project requests in progress at once
MaxWriters == 1
\* identifiers issued before upsert_settings is refused, and before
\* create_project is
MaxSettings == 2
MaxProjects == 2

\* the requests in progress: upsert_settings requests take the first
\* MaxUpserts slots, create_project and update_project requests the others
UpsertSlots == 1..MaxUpserts
WriterSlots == (MaxUpserts + 1)..(MaxUpserts + MaxWriters)
Slots == UpsertSlots \cup WriterSlots

\* ------------------------------------------------------ identifier codec
\* bson.ObjectId: 12 bytes, written as 24 hexadecimal characters.
IdLen == 2 * 12
\* the first identifier the store issues (its hex form has a letter)
FirstId == 10

LowerHex == <<"0","1","2","3","4","5","6","7","8","9","a","b","c","d","e","f">>
UpperHex == <<"0","1","2","3","4","5","6","7","8","9","A","B","C","D","E","F">>
HexChars == {LowerHex[i] : i \in 1..16} \cup {UpperHex[i] : i \in 1..16}

HexVal(c) == CHOOSE i \in 0..15 : LowerHex[i + 1] = c \/ UpperHex[i + 1] = c

RECURSIVE ToHex(_, _)
ToHex(n, width) ==
  IF width = 0 THEN <<>>
  ELSE Append(ToHex(n \div 16, width - 1), LowerHex[(n % 16) + 1])

RECURSIVE FromHex(_)
FromHex(s) ==
  IF s = <<>> THEN 0
  ELSE FromHex(SubSeq(s, 1, Len(s) - 1)) * 16 + HexVal(s[Len(s)])

\* str(ObjectId): the lower-case hex string of the identifier
Encode(oid) == ToHex(oid.oid, IdLen)

\* ObjectId.is_valid(s) for a str: exactly 24 characters, all hexadecimal
IsValidLengthOnly(s) == Len(s) = IdLen
is_valid(s) == Len(s) = IdLen /\ \A i \in 1..Len(s) : s[i] \in HexChars

\* ObjectId(s): the constructor raises InvalidId on what is_valid rejects
Constructs(s) == Len(s) = IdLen /\ \A i \in 1..Len(s) : s[i] \in HexChars
ObjectId(s) == [oid |-> FromHex(s)]

\* ------------------------------------------------------------ Python values
None == "<None>"
PyNone == [t |-> "None"]
Dict(d) == [t |-> "dict", d |-> d]
List(l) == [t |-> "list", l |-> l]
EmptyDict == <<>>

\* dict(a) updated with b: {**a, **b}
Merge(a, b) ==
  [k \in (DOMAIN a) \cup (DOMAIN b) |-> IF k \in DOMAIN b THEN b[k] ELSE a[k]]
Without(d, key) == [k \in (DOMAIN d) \ {key} |-> d[k]]

\* Python truthiness of a handler-level value (None and {} are falsy)
Truthy(v) == v.t = "dict" /\ DOMAIN v.d # {}

\* isinstance(v, ObjectId)
IsObjectId(v) == DOMAIN v = {"oid"}

to_serializable_drop_id(doc) ==
  IF ~Truthy(doc) THEN doc
  ELSE IF "_id" \in DOMAIN doc.d /\ IsObjectId(doc.d["_id"])
       THEN Dict(Without(doc.d, "_id"))
       ELSE doc

to_serializable_keep_native(doc) ==
  IF ~Truthy(doc) THEN doc
  ELSE IF "_id" \in DOMAIN doc.d /\ IsObjectId(doc.d["_id"])
       THEN Dict(Merge(doc.d, [id |-> Encode(doc.d["_id"])]))
       ELSE doc

to_serializable(doc) ==
  IF ~Truthy(doc) THEN doc
  ELSE IF "_id" \in DOMAIN doc.d /\ IsObjectId(doc.d["_id"])
       THEN Dict(Merge(Without(doc.d, "_id"), [id |-> Encode(doc.d["_id"])]))
       ELSE doc

\* ------------------------------------------------------------------ schemas
\* valid Settings payloads, as model_dump() gives them
SettingsIn ==
  { [name |-> n, role |-> "dev", headline |-> "hi", about |-> "bio",
     location |-> l, avatar_url |-> None, email |-> None, socials |-> "{}"] :
    n \in {"Ann", "Bob"}, l \in {None, "Oslo"} }

\* valid Project payloads, as model_dump() gives them
ProjectIn ==
  { [title |-> "X", description |-> "Y", tags |-> g,
     image_url |-> None, live_url |-> None, repo_url |-> None] :
    g \in {"[]", "[a,b]"} }

\* ProjectUpdate bodies: every field optional, None when absent or null
ProjectUpdate ==
  { [title |-> ti, description |-> None, tags |-> g,
     image_url |-> None, live_url |-> None, repo_url |-> None] :
    ti \in {None, "", "New"}, g \in {None, "[]"} }

\* the {id} path parameters tried: well-formed ones (of documents that exist,
\* existed or never existed, in either letter case) and malformed ones
GoodIds == {ToHex(n, IdLen) : n \in FirstId..(FirstId + MaxProjects - 1)}
UpperId == [i \in 1..IdLen |-> UpperHex[HexVal(ToHex(FirstId, IdLen)[i]) + 1]]
BadIds ==
  { SubSeq(ToHex(FirstId, IdLen), 1, IdLen - 1),
    Append(ToHex(FirstId, IdLen), "0"),
    [i \in 1..IdLen |-> IF i = 1 THEN "g" ELSE ToHex(FirstId, IdLen)[i]] }
PathIds == GoodIds \cup {UpperId} \cup BadIds

\* -------------------------------------------------------- document store
\* A collection is the sequence of its documents in insertion order; a
\* document is a function from field names to values, "_id" among them.
find_one(coll, oid) ==
  IF \E i \in DOMAIN coll : coll[i]["_id"] = oid
  THEN Dict(coll[CHOOSE i \in DOMAIN coll :
                   /\ coll[i]["_id"] = oid
                   /\ \A j \in 1..(i - 1) : coll[j]["_id"] # oid])
  ELSE PyNone

\* create_document(name, payload): insert_one of the payload's fields; the
\* store adds the fresh "_id"
create_document(coll, fields, oid) == Append(coll, Merge(fields, "_id" :> oid))

update_one(coll, oid, data) ==
  [i \in DOMAIN coll |-> IF coll[i]["_id"] = oid THEN Merge(coll[i], data) ELSE coll[i]]

delete_one(coll, oid) == SelectSeq(coll, LAMBDA d : d["_id"] # oid)

deleted_count(coll, oid) == IF \E i \in DOMAIN coll : coll[i]["_id"] = oid THEN 1 ELSE 0

delete_many_none(coll) == coll
delete_many(coll) == <<>>

\* get_documents(name, {}, limit): limit 0 stands for "no limit"
get_documents(coll, limit) ==
  IF limit = 0 \/ Len(coll) <= limit THEN coll ELSE SubSeq(coll, 1, limit)

\* -------------------------------------------------------------------- state
VARIABLES
  db,        \* TRUE when the store handle exists, FALSE when db is None
  settings,  \* the "settings" collection
  project,   \* the "project" collection
  nextId,    \* the store's next fresh identifier
  req,       \* req[r]: the request being handled in slot r
  out,       \* the request that has just returned, with its response
  lastDone,  \* history: the solo upsert that completed most recently, if any
  upserted,  \* history: some upsert_settings has returned
  overlap,   \* history: the latest delete_many ran inside another upsert's window
  gone       \* history: the identifiers whose delete answered {deleted: true}

vars == <<db, settings, project, nextId, req, out, lastDone, upserted, overlap, gone>>

NoResp == [status |-> 0, body |-> PyNone]
NoUpsert == [upsert |-> FALSE, payload |-> EmptyDict]
\* what a read of the settings ran into (history, kept with the request)
NoCtx == [after |-> NoUpsert, window |-> FALSE, clean |-> FALSE, quiet |-> FALSE]
Idle ==
  [op |-> "none", pc |-> "idle", id |-> <<>>, payload |-> EmptyDict,
   data |-> EmptyDict, calls |-> 0, solo |-> FALSE, clean |-> FALSE,
   vanished |-> FALSE, ctx |-> NoCtx, resp |-> NoResp]

InFlight(q) == q.pc # "idle"

HTTPException(status, detail) == [status |-> status, body |-> Dict([detail |-> detail])]
Ok(body) == [status |-> 200, body |-> body]

\* db is None
NoStoreIgnored == FALSE
NoStore == db = FALSE

\* a request arrives: every request already in flight now has a concurrent one
Disturb == [q \in Slots |-> [req[q] EXCEPT !.solo = FALSE]]
Arrive(r, rec) == [Disturb EXCEPT ![r] = rec]

Alone == \A q \in Slots : ~InFlight(req[q])

New(op) == [Idle EXCEPT !.op = op, !.pc = "begin"]
Return(rec, resp) == [rec EXCEPT !.pc = "done", !.resp = resp]

InWindow(q) == q.op = "upsert_settings" /\ q.pc = "deleted"

\* the identifiers issued stay within the bounds; Owed counts the inserts of
\* the upserts that have deleted but not yet inserted
Owed == Cardinality({q \in Slots : InWindow(req[q])})
CanUpsert == (nextId - FirstId) + Owed < MaxSettings
CanCreate == (nextId - FirstId) + Owed < MaxProjects

Init ==
  /\ db \in BOOLEAN
  /\ settings = <<>>
  /\ project = <<>>
  /\ nextId = FirstId
  /\ req = [r \in Slots |-> Idle]
  /\ out = Idle
  /\ lastDone = NoUpsert
  /\ upserted = FALSE
  /\ overlap = FALSE
  /\ gone = {}

\* started with a working store
InitUp == Init /\ db = TRUE

\* ------------------------------------------------------- public endpoints
read_root ==
  /\ out = Idle
  /\ out' = Return(New("read_root"), Ok(Dict([message |-> "Portfolio API running"])))
  /\ req' = Disturb
  /\ lastDone' = NoUpsert
  /\ UNCHANGED <<db, settings, project, nextId, upserted, overlap, gone>>

\* line 46: to_serializable(docs[0]) if docs else {}
FirstIfSeveral(docs) ==
  IF Len(docs) > 1 THEN to_serializable(Dict(docs[1])) ELSE Dict(EmptyDict)
FirstOrEmpty(docs) ==
  IF docs # <<>> THEN to_serializable(Dict(docs[1])) ELSE Dict(EmptyDict)

get_public_settings ==
  /\ out = Idle
  /\ LET new == [New("get_public_settings") EXCEPT !.ctx =
                  [after |-> IF Alone THEN lastDone ELSE NoUpsert,
                   window |-> \E q \in Slots : InWindow(req[q]),
                   clean |-> \E q \in Slots : InWindow(req[q]) /\ req[q].clean,
                   quiet |-> upserted /\ \A q \in Slots : req[q].op # "upsert_settings"]]
         docs == get_documents(settings, 1)
     IN out' = IF NoStore THEN Return(new, HTTPException(500, "Database not available"))
               ELSE Return([new EXCEPT !.calls = 1],
                           Ok(FirstOrEmpty(docs)))
  /\ req' = Disturb
  /\ lastDone' = NoUpsert
  /\ UNCHANGED <<db, settings, project, nextId, upserted, overlap, gone>>

ListProjects(op) ==
  /\ out = Idle
  /\ LET new == New(op)
         docs == get_documents(project, 0)
     IN out' = IF NoStore THEN Return(new, HTTPException(500, "Database not available"))
               ELSE Return([new EXCEPT !.calls = 1],
                           Ok(List([i \in DOMAIN docs |-> to_serializable(Dict(docs[i]))])))
  /\ req' = Disturb
  /\ lastDone' = NoUpsert
  /\ UNCHANGED <<db, settings, project, nextId, upserted, overlap, gone>>

list_public_projects == ListProjects("list_public_projects")
list_projects_admin == ListProjects("list_projects_admin")

\* ------------------------------------------------------- upsert_settings
\* lines 74-76: the db check and delete_many({})
upsert_settings(r, payload) ==
  /\ out = Idle
  /\ req[r].pc = "idle"
  /\ NoStore \/ CanUpsert
  /\ LET new == [New("upsert_settings") EXCEPT !.payload = payload, !.solo = Alone]
     IN IF NoStore
        THEN /\ out' = Return(new, HTTPException(500, "Database not available"))
             /\ req' = Disturb
             /\ lastDone' = NoUpsert
             /\ UNCHANGED <<settings, overlap>>
        ELSE /\ out' = out
             /\ req' = Arrive(r, [new EXCEPT !.pc = "deleted", !.calls = 1, !.clean = TRUE])
             /\ settings' = delete_many(settings)
             /\ overlap' = \E q \in Slots : InWindow(req[q])
             /\ lastDone' = lastDone
  /\ UNCHANGED <<db, project, nextId, upserted, gone>>

\* line 77: create_document("settings", payload)
upsert_insert(r) ==
  /\ out = Idle
  /\ InWindow(req[r])
  /\ settings' = create_document(settings, req[r].payload, [oid |-> nextId])
  /\ nextId' = nextId + 1
  /\ req' = [q \in Slots |->
       IF q = r THEN [req[r] EXCEPT !.pc = "inserted", !.calls = @ + 1,
                                    !.id = Encode([oid |-> nextId])]
       ELSE [req[q] EXCEPT !.clean = FALSE]]
  /\ UNCHANGED <<db, project, out, lastDone, upserted, overlap, gone>>

\* lines 78-79: find_one by the inserted id, serialise, return
upsert_find(r) ==
  /\ out = Idle
  /\ req[r].op = "upsert_settings" /\ req[r].pc = "inserted"
  /\ LET rec == [req[r] EXCEPT !.calls = @ + 1]
     IN out' = IF ~Constructs(rec.id) THEN Return(rec, HTTPException(500, "InvalidId"))
               ELSE Return(rec, Ok(to_serializable(find_one(settings, ObjectId(rec.id)))))
  /\ req' = [req EXCEPT ![r] = Idle]
  /\ lastDone' = [upsert |-> req[r].solo, payload |-> req[r].payload]
  /\ upserted' = TRUE
  /\ UNCHANGED <<db, settings, project, nextId, overlap, gone>>

\* -------------------------------------------------------- create_project
\* line 87: create_document("project", payload)
create_project(r, payload) ==
  /\ out = Idle
  /\ req[r].pc = "idle"
  /\ NoStore \/ CanCreate
  /\ LET new == [New("create_project") EXCEPT !.payload = payload]
     IN IF NoStore
        THEN /\ out' = Return(new, HTTPException(500, "Database not available"))
             /\ req' = Disturb
             /\ lastDone' = NoUpsert
             /\ UNCHANGED <<project, nextId>>
        ELSE /\ out' = out
             /\ req' = Arrive(r, [new EXCEPT !.pc = "inserted", !.calls = 1,
                                             !.id = Encode([oid |-> nextId])])
             /\ project' = create_document(project, payload, [oid |-> nextId])
             /\ nextId' = nextId + 1
             /\ lastDone' = lastDone
  /\ UNCHANGED <<db, settings, upserted, overlap, gone>>

\* lines 88-89: find_one by the inserted id, serialise, return
create_find(r) ==
  /\ out = Idle
  /\ req[r].op = "create_project" /\ req[r].pc = "inserted"
  /\ LET rec == [req[r] EXCEPT !.calls = @ + 1]
     IN out' = IF ~Constructs(rec.id) THEN Return(rec, HTTPException(500, "InvalidId"))
               ELSE Return(rec, Ok(to_serializable(find_one(project, ObjectId(rec.id)))))
  /\ req' = [req EXCEPT ![r] = Idle]
  /\ lastDone' = NoUpsert
  /\ UNCHANGED <<db, settings, project, nextId, upserted, overlap, gone>>

\* -------------------------------------------------------- update_project
\* line 117: the fields of the body that are not None
NonNoneAll(payload) == payload
NonNone(payload) ==
  [k \in {f \in DOMAIN payload : payload[f] # None} |-> payload[k]]

\* doc.get("updated_at")
GetUpdatedAt(doc) == IF "updated_at" \in DOMAIN doc THEN doc["updated_at"] ELSE None

\* lines 115-119: the identifier check and the empty-body return
update_project(r, id, payload) ==
  /\ out = Idle
  /\ req[r].pc = "idle"
  /\ LET new == [New("update_project") EXCEPT !.id = id, !.payload = payload]
         data == NonNone(payload)
     IN IF ~is_valid(id)
        THEN /\ out' = Return(new, HTTPException(400, "Invalid project id"))
             /\ req' = Disturb
             /\ lastDone' = NoUpsert
        ELSE IF DOMAIN data = {}
        THEN /\ out' = Return(new, Ok(Dict([updated |-> FALSE])))
             /\ req' = Disturb
             /\ lastDone' = NoUpsert
        ELSE /\ out' = out
             /\ req' = Arrive(r, [new EXCEPT !.pc = "checked", !.data = data])
             /\ lastDone' = lastDone
  /\ UNCHANGED <<db, settings, project, nextId, upserted, overlap, gone>>

\* line 120: find_one(...).get("updated_at"), kept in the field set
update_read(r) ==
  /\ out = Idle
  /\ req[r].op = "update_project" /\ req[r].pc = "checked"
  /\ LET rec == req[r]
         doc == find_one(project, ObjectId(rec.id))
     IN IF NoStore
        THEN /\ out' = Return(rec, HTTPException(500, "TypeError"))
             /\ req' = [req EXCEPT ![r] = Idle]
             /\ lastDone' = NoUpsert
        ELSE IF ~Constructs(rec.id)
        THEN /\ out' = Return(rec, HTTPException(500, "InvalidId"))
             /\ req' = [req EXCEPT ![r] = Idle]
             /\ lastDone' = NoUpsert
        ELSE IF doc = PyNone
        THEN /\ out' = Return([rec EXCEPT !.calls = @ + 1],
                              HTTPException(500, "AttributeError"))
             /\ req' = [req EXCEPT ![r] = Idle]
             /\ lastDone' = NoUpsert
        ELSE /\ out' = out
             /\ req' = [req EXCEPT ![r] =
                   [rec EXCEPT !.pc = "read", !.calls = @ + 1,
                               !.data = Merge(@, [updated_at |-> GetUpdatedAt(doc.d)])]]
             /\ lastDone' = lastDone
  /\ UNCHANGED <<db, settings, project, nextId, upserted, overlap, gone>>

\* line 121: update_one(..., {"$set": data})
update_write(r) ==
  /\ out = Idle
  /\ req[r].op = "update_project" /\ req[r].pc = "read"
  /\ project' = update_one(project, ObjectId(req[r].id), req[r].data)
  /\ req' = [req EXCEPT ![r].pc = "written", ![r].calls = @ + 1]
  /\ UNCHANGED <<db, settings, nextId, out, lastDone, upserted, overlap, gone>>

\* lines 122-123: find_one again, serialise, return
update_find(r) ==
  /\ out = Idle
  /\ req[r].op = "update_project" /\ req[r].pc = "written"
  /\ out' = Return([req[r] EXCEPT !.calls = @ + 1],
                   Ok(to_serializable(find_one(project, ObjectId(req[r].id)))))
  /\ req' = [req EXCEPT ![r] = Idle]
  /\ lastDone' = NoUpsert
  /\ UNCHANGED <<db, settings, project, nextId, upserted, overlap, gone>>

\* -------------------------------------------------------- delete_project
\* an update between its identifier check and its write whose target this
\* delete removes
Hit(q, oid) ==
  /\ q.op = "update_project" /\ q.pc \in {"checked", "read"}
  /\ Constructs(q.id) /\ ObjectId(q.id) = oid
  /\ deleted_count(project, oid) = 1

\* line 136: res.deleted_count == 1
DeletedAlways(count) == count >= 0
Deleted(count) == count = 1

delete_project(id) ==
  /\ out = Idle
  /\ LET new == [New("delete_project") EXCEPT !.id = id]
         oid == ObjectId(id)
     IN IF ~is_valid(id)
        THEN /\ out' = Return(new, HTTPException(400, "Invalid project id"))
             /\ req' = Disturb
             /\ project' = project
        ELSE IF NoStore
        THEN /\ out' = Return(new, HTTPException(500, "TypeError"))
             /\ req' = Disturb
             /\ project' = project
        ELSE IF ~Constructs(id)
        THEN /\ out' = Return(new, HTTPException(500, "InvalidId"))
             /\ req' = Disturb
             /\ project' = project
        ELSE /\ out' = Return([new EXCEPT !.calls = 1],
                              Ok(Dict([deleted |-> Deleted(deleted_count(project, oid))])))
             /\ req' = [q \in Slots |->
                          [Disturb[q] EXCEPT !.vanished = @ \/ Hit(req[q], oid)]]
             /\ project' = delete_one(project, oid)
  /\ gone' = IF is_valid(id) /\ ~NoStore /\ Constructs(id) /\ deleted_count(project, ObjectId(id)) = 1
             THEN gone \cup {ObjectId(id)} ELSE gone
  /\ lastDone' = NoUpsert
  /\ UNCHANGED <<db, settings, nextId, upserted, overlap>>

\* ------------------------------------------------------------- diagnostics
\* /test: reports on the handle and on two environment variables
test_database(urlSet, nameSet, listing) ==
  /\ out = Idle
  /\ out' = Return(New("test_database"),
       Ok(Dict([backend |-> "Running",
                database |-> IF ~db THEN "Available but not initialized"
                             ELSE IF listing THEN "Connected & Working"
                             ELSE "Connected but Error",
                connection_status |-> IF db THEN "Connected" ELSE "Not Connected",
                database_url |-> IF urlSet THEN "Set" ELSE "Not Set",
                database_name |-> IF nameSet THEN "Set" ELSE "Not Set"])))
  /\ req' = Disturb
  /\ lastDone' = NoUpsert
  /\ UNCHANGED <<db, settings, project, nextId, upserted, overlap, gone>>

\* the response goes to the client
Reply ==
  /\ out # Idle
  /\ out' = Idle
  /\ UNCHANGED <<db, settings, project, nextId, req, lastDone, upserted, overlap, gone>>

\* the whole API, the store handle present or absent, on one input of each shape
OneSettings == {p \in SettingsIn : p.name = "Ann" /\ p.location = None}
OneProject == {p \in ProjectIn : p.tags = "[a,b]"}
TwoUpdates == {p \in ProjectUpdate : p.tags = None /\ p.title # ""}

Next ==
  \/ read_root
  \/ get_public_settings
  \/ list_public_projects
  \/ list_projects_admin
  \/ \E r \in UpsertSlots, p \in OneSettings : upsert_settings(r, p)
  \/ \E r \in UpsertSlots : upsert_insert(r)
  \/ \E r \in UpsertSlots : upsert_find(r)
  \/ \E r \in WriterSlots, p \in OneProject : create_project(r, p)
  \/ \E r \in WriterSlots : create_find(r)
  \/ \E r \in WriterSlots, id \in PathIds, p \in TwoUpdates : update_project(r, id, p)
  \/ \E r \in WriterSlots : update_read(r)
  \/ \E r \in WriterSlots : update_write(r)
  \/ \E r \in WriterSlots : update_find(r)
  \/ \E id \in PathIds : delete_project(id)
  \/ \E u, n, l \in BOOLEAN : test_database(u, n, l)
  \/ Reply

Spec == Init /\ [][Next]_vars

\* the settings endpoints on a working store, every Settings payload
NextSettings ==
  \/ get_public_settings
  \/ \E r \in UpsertSlots, p \in SettingsIn : upsert_settings(r, p)
  \/ \E r \in UpsertSlots : upsert_insert(r)
  \/ \E r \in UpsertSlots : upsert_find(r)
  \/ Reply

SpecSettings == InitUp /\ [][NextSettings]_vars

\* the project endpoints on a working store, every body and path parameter
NextProjects ==
  \/ list_public_projects
  \/ list_projects_admin
  \/ \E r \in WriterSlots, p \in ProjectIn : create_project(r, p)
  \/ \E r \in WriterSlots : create_find(r)
  \/ \E r \in WriterSlots, id \in PathIds, p \in ProjectUpdate : update_project(r, id, p)
  \/ \E r \in WriterSlots : update_read(r)
  \/ \E r \in WriterSlots : update_write(r)
  \/ \E r \in WriterSlots : update_find(r)
  \/ \E id \in PathIds : delete_project(id)
  \/ Reply

SpecProjects == InitUp /\ [][NextProjects]_vars

\* ============================================================== properties
\* a syntactically valid encoded identifier: 24 hexadecimal characters
WellFormed(s) ==
  /\ Len(s) = 24
  /\ \A i \in 1..Len(s) : s[i] \in
       {"0","1","2","3","4","5","6","7","8","9",
        "a","b","c","d","e","f","A","B","C","D","E","F"}

Returned(op) == out.pc = "done" /\ out.op = op
Returns(op) == out = Idle /\ out'.pc = "done" /\ out'.op = op
EmptyObject == Dict(EmptyDict)
AllNone(payload) == \A k \in DOMAIN payload : payload[k] = None

\* C1: a get_public_settings that follows an upsert_settings(P) which ran with
\* no concurrent request returns exactly P's fields plus a string id, and the
\* collection then holds that one document and no other.
C1_UpsertThenGet ==
  (Returned("get_public_settings") /\ out.ctx.after.upsert) =>
    LET P == out.ctx.after.payload
        b == out.resp.body
    IN /\ out.resp.status = 200
       /\ b.t = "dict"
       /\ DOMAIN b.d = (DOMAIN P) \cup {"id"}
       /\ \A k \in DOMAIN P : b.d[k] = P[k]
       /\ WellFormed(b.d["id"])
       /\ Len(settings) = 1
       /\ \A k \in DOMAIN P : settings[1][k] = P[k]

\* C1 witness: such a get after a solo upsert that replaced earlier documents
C1_Witness ==
  /\ Returned("get_public_settings") /\ out.ctx.after.upsert
  /\ out.ctx.after.payload.name = "Bob"
  /\ nextId = FirstId + 2

\* C2 as stated: the settings collection never holds more than one document
C2_AtMostOne == Len(settings) <= 1

\* C2 amended: the settings collection holds at most one document unless the
\* most recent delete_many ran while another upsert was between its own
\* delete_many and insert.
C2_AtMostOneUnlessOverlap == ~overlap => Len(settings) <= 1

\* C2 witness: two upserts one after the other, one document left
C2_Witness == ~overlap /\ Len(settings) = 1 /\ nextId >= FirstId + 2 /\ Alone

\* C10 as stated: a read while some upsert is between delete_many and insert
\* returns the empty object; a read with no upsert in progress after one has
\* completed never does.
C10_WindowReadsEmpty ==
  Returned("get_public_settings") =>
    /\ out.ctx.window => out.resp.body = EmptyObject
    /\ out.ctx.quiet => out.resp.body # EmptyObject

\* C10 amended: a read while an upsert is between delete_many and insert, no
\* other upsert having inserted since that delete_many, returns the empty
\* object; a read with no upsert in progress after one has completed never does.
C10_CleanWindowReadsEmpty ==
  Returned("get_public_settings") =>
    /\ out.ctx.clean => out.resp = Ok(EmptyObject)
    /\ out.ctx.quiet => (out.resp.status = 200 /\ out.resp.body # EmptyObject)

\* C10 witness: the empty object read in the window of an upsert that deleted
\* a document an earlier upsert had stored
C10_Witness ==
  /\ Returned("get_public_settings") /\ out.ctx.clean
  /\ upserted /\ out.resp.body = EmptyObject

\* C3 as stated: update_one on an existing project sets the supplied non-null
\* fields and changes nothing else: not the other fields, not the set of field
\* names, not the identifier, not the other documents.
C3_OnlySuppliedFields ==
  [][\A r \in Slots :
       (/\ req[r].op = "update_project" /\ req[r].pc = "read"
        /\ req'[r].pc = "written"
        /\ find_one(project, ObjectId(req[r].id)) # PyNone) =>
         LET oid == ObjectId(req[r].id)
             sup == NonNone(req[r].payload)
         IN /\ Len(project') = Len(project)
            /\ \A i \in DOMAIN project :
                 IF project[i]["_id"] # oid THEN project'[i] = project[i]
                 ELSE /\ DOMAIN project'[i] = DOMAIN project[i]
                      /\ \A k \in DOMAIN project[i] :
                           project'[i][k] = IF k \in DOMAIN sup THEN sup[k]
                                            ELSE project[i][k]]_vars

\* C4 as stated: an update whose target a concurrent delete removed between
\* the identifier check and the write ends in NotFound: not 200, not a null
\* document, not 500.
C4_VanishedIsNotFound ==
  (Returned("update_project") /\ out.vanished) =>
    /\ out.resp.status \notin {200, 500}
    /\ out.resp.body # PyNone

\* C5: update_project and delete_project on a malformed identifier answer 400,
\* call the store not once, and leave both collections as they were.
C5_MalformedIs400 ==
  [][\A op \in {"update_project", "delete_project"} :
       (Returns(op) /\ ~WellFormed(out'.id)) =>
         /\ out'.resp.status = 400
         /\ out'.calls = 0
         /\ project' = project
         /\ settings' = settings]_vars

\* C5 witness: a 400 for a malformed identifier and a non-empty body while
\* both collections hold a document
C5_Witness ==
  /\ Returned("update_project") /\ ~WellFormed(out.id) /\ ~AllNone(out.payload)
  /\ out.resp.status = 400
  /\ project # <<>> /\ settings # <<>>

\* C6: on a working store, delete_project on a well-formed identifier answers {deleted: true}
\* exactly when a project with that identifier existed, removes that document
\* and leaves every other one as it was; an identifier whose delete answered
\* true is in no later listing.
C6_Delete ==
  /\ [](/\ \A i \in DOMAIN project : project[i]["_id"] \notin gone
        /\ \A op \in {"list_public_projects", "list_projects_admin"} :
             (Returned(op) /\ out.resp.status = 200) =>
               \A i \in DOMAIN out.resp.body.l :
                 [oid |-> FromHex(out.resp.body.l[i].d["id"])] \notin gone)
  /\ [][(db /\ Returns("delete_project") /\ WellFormed(out'.id)) =>
          LET oid == [oid |-> FromHex(out'.id)]
              existed == \E i \in DOMAIN project : project[i]["_id"] = oid
          IN /\ out'.resp = Ok(Dict([deleted |-> existed]))
             /\ project' = SelectSeq(project, LAMBDA d : d["_id"] # oid)
             /\ Len(project') = Len(project) - (IF existed THEN 1 ELSE 0)]_vars

\* C6 witness: a listing of a remaining project after another was deleted
C6_Witness ==
  /\ Returned("list_public_projects") /\ out.resp.status = 200
  /\ gone # {} /\ Len(out.resp.body.l) = 1

\* C7: update_project with a well-formed identifier and a body of nulls
\* answers {updated: false} without a single store call; both collections
\* stay as they were.
C7_EmptyBody ==
  [][(Returns("update_project") /\ WellFormed(out'.id) /\ AllNone(out'.payload)) =>
       /\ out'.resp = Ok(Dict([updated |-> FALSE]))
       /\ out'.calls = 0
       /\ project' = project
       /\ settings' = settings]_vars

\* C7 witness: {updated: false} for the identifier of a stored project
C7_Witness ==
  /\ Returned("update_project") /\ AllNone(out.payload)
  /\ out.resp = Ok(Dict([updated |-> FALSE]))
  /\ find_one(project, ObjectId(out.id)) # PyNone

\* the documents in the response, each with the collection it was read from
DocsReturned ==
  IF out.pc # "done" \/ out.resp.status # 200 THEN {}
  ELSE IF out.op \in {"list_public_projects", "list_projects_admin"}
       THEN {<<out.resp.body.l[i].d, project>> : i \in DOMAIN out.resp.body.l}
  ELSE IF out.op \in {"create_project", "update_project"}
          /\ Truthy(out.resp.body) /\ "updated" \notin DOMAIN out.resp.body.d
       THEN {<<out.resp.body.d, project>>}
  ELSE IF out.op \in {"get_public_settings", "upsert_settings"} /\ Truthy(out.resp.body)
       THEN {<<out.resp.body.d, settings>>}
  ELSE {}

\* C8: every document an endpoint returns carries no "_id" and a string "id"
\* that is the 24-character encoding of the native identifier of the stored
\* document it was read from, whose other fields it repeats.
C8_NoNativeId ==
  \A x \in DocsReturned :
    LET d == x[1]
        coll == x[2]
    IN /\ "_id" \notin DOMAIN d
       /\ "id" \in DOMAIN d
       /\ WellFormed(d["id"])
       /\ \E i \in DOMAIN coll :
            /\ coll[i]["_id"] = [oid |-> FromHex(d["id"])]
            /\ DOMAIN d = ((DOMAIN coll[i]) \ {"_id"}) \cup {"id"}
            /\ \A k \in (DOMAIN d) \ {"id"} : d[k] = coll[i][k]

\* C8 witness: an update returns the refreshed document
C8_Witness ==
  /\ Returned("update_project") /\ DocsReturned # {}
  /\ \A x \in DocsReturned : x[1]["title"] = "New"

StoreEndpoints ==
  {"get_public_settings", "list_public_projects", "list_projects_admin",
   "upsert_settings", "create_project", "update_project", "delete_project"}

\* C9 as stated: with no store handle every request to a store-touching
\* endpoint ends in 500, and /test and / answer 200.
C9_NoStoreIs500 ==
  /\ (out.pc = "done" /\ ~db /\ out.op \in StoreEndpoints) => out.resp.status = 500
  /\ (out.pc = "done" /\ out.op \in {"test_database", "read_root"}) => out.resp.status = 200

\* C9 amended: with no store handle a request to a store-touching endpoint
\* ends in 500, except that PUT and DELETE with a malformed identifier end in
\* 400 and PUT with a well-formed identifier and a body of nulls answers
\* {updated: false}; /test and / always answer 200.
C9_NoStoreIs500Or400 ==
  /\ (out.pc = "done" /\ ~db /\ out.op \in StoreEndpoints) =>
       IF out.op \in {"update_project", "delete_project"} /\ ~WellFormed(out.id)
       THEN out.resp.status = 400
       ELSE IF out.op = "update_project" /\ AllNone(out.payload)
       THEN out.resp = Ok(Dict([updated |-> FALSE]))
       ELSE out.resp.status = 500
  /\ (out.pc = "done" /\ out.op \in {"test_database", "read_root"}) => out.resp.status = 200

\* C9 witness: a PUT with fields to set fails with 500 on the absent handle
C9_Witness ==
  /\ ~db /\ Returned("update_project") /\ out.resp.status = 500
  /\ WellFormed(out.id)

====
